---- MODULE Spec2Model ----
(***************************************************************************)
(* Lifecycle hooks of system/utils/callbacks.py:                           *)
(*   SetupCallback          (run setup at fit-start),                      *)
(*   EpochEndCallback       (per-epoch loss line),                         *)
(*   BestCheckpointCallback (copy of the best checkpoint to best.ckpt).    *)
(* Every process of a distributed run holds its own trainer and its own    *)
(* hook objects; the filesystem is shared by all processes.                *)
(*                                                                         *)
(* Encodings.  A path is a sequence of components (osp.join appends,       *)
(* osp.dirname drops the last one); the empty sequence is the empty        *)
(* string.  An optional value is <<>> (None) or <<v>>.  Metric values and  *)
(* learning rates are integers in units of 1e-8; a formatted number        *)
(* (".7f") is an integer in units of 1e-7.                                 *)
(***************************************************************************)
EXTENDS Integers, Sequences, FiniteSets, TLC

\* ---- bounds -------------------------------------------------------------
MaxRank == 1
MaxEpoch == 1
MaxLogLen == 3
MaxData == 2

\* ---- value sets the host and the launch script draw from ------------------
Ranks == 0 .. MaxRank
CkptData == 1 .. MaxData

None == <<>>
Some(v) == <<v>>

\* (prefix, setup_time) pairs the launch script may pass
RunIds == {<<"train", "20240101_000000">>, <<"test", "20240102_000000">>}
Configs == {[epochs |-> 10], [epochs |-> 20]}
MethodInfos == {None, Some([info |-> "model", flops |-> "flops", fps |-> "fps"])}

TrainLosses == {51234564, 30000004}
ValLosses == {49876547}
LrValues == {100000, 50004}
TrainMetrics == {None} \cup {Some(v) : v \in TrainLosses}
ValMetrics == {None} \cup {Some(v) : v \in ValLosses}
\* trainer.optimizers: one optimizer with two parameter groups
OptimizerLists ==
    {<< <<[lr |-> x], [lr |-> y]>> >> : x, y \in LrValues} \ {<< <<[lr |-> x], [lr |-> x]>> >> : x \in LrValues}

Cwd == <<"/", "work">>
RelSaveDir == <<"results">>
RelCkptDir == <<"results", "checkpoints">>
\* paths the host's checkpoint mechanism may report as best_model_path
CkptPaths ==
    {Cwd \o RelCkptDir \o <<"epoch=5.ckpt">>,
     Cwd \o RelCkptDir \o <<"v1", "best.ckpt">>}
EmptyPath == <<>>

PreSinks == {[kind |-> "stream", path |-> EmptyPath]}

\* ---- path functions --------------------------------------------------------
join(dir, name) == Append(dir, name)

dirname(path) == IF Len(path) = 0 THEN path ELSE SubSeq(path, 1, Len(path) - 1)

abspath(path) == IF Len(path) > 0 /\ path[1] = "/" THEN path ELSE Cwd \o path

Ancestors(path) == {SubSeq(path, 1, k) : k \in 2 .. Len(path)}

\* f'{prefix}_{setup_time}.log' joined to dir; the file name is kept as its pieces
LogPath(dir, prefix, setup_time) == dir \o <<prefix, "_", setup_time, ".log">>

FileSink(path) == [kind |-> "file", path |-> path]

\* ---- number formatting -----------------------------------------------------
Fmt7(x) == (x + 5) \div 10

EpochLine(epoch, lr, train, vali) ==
    [kind |-> "epoch", epoch |-> epoch, lr |-> Fmt7(lr),
     train |-> Fmt7(train), vali |-> Fmt7(vali)]

EnvLine == [kind |-> "env"]
ArgsLine(args) == [kind |-> "args", args |-> args]
ModelLine(mi) == [kind |-> "model", info |-> mi]

VARIABLES
    dirs,        \* directories that exist (absolute paths)
    files,       \* path -> content, for the files that exist
    writers,     \* path -> set of ranks that created or wrote the file
    sinks,       \* rank -> handlers of logging.root in that process
    setup,       \* rank -> fields of the SetupCallback object
    reporter,    \* rank -> attribute dictionary of the EpochEndCallback object
    epoch,       \* rank -> trainer.current_epoch
    trained,     \* rank -> a train-epoch-end has fired in the current epoch
    ckpt_cb,     \* rank -> trainer.checkpoint_callback (None or its best_model_path)
    last         \* the hook event that ran last, with its inputs and outcome

vars == <<dirs, files, writers, sinks, setup, reporter, epoch, trained, ckpt_cb, last>>

\* ---- filesystem primitives ---------------------------------------------------
Exists(f, path) == path \in DOMAIN f

PutFile(f, path, content) ==
    [q \in DOMAIN f \cup {path} |-> IF q = path THEN content ELSE f[q]]

EmptyFn == [q \in {} |-> 0]

LogsBounded(f) ==
    \A q \in DOMAIN f : "text" \in DOMAIN f[q] => Len(f[q].text) <= MaxLogLen

\* ---- main_utils helpers (not part of callbacks.py) ---------------------------
\* check_dir: create the directory (and its parents) when absent, return the
\* absolute path
check_dir(d, path) ==
    [dirs |-> d \cup Ancestors(abspath(path)), ret |-> abspath(path)]

\* print_log: hand the message to the process-wide logging sinks; a file sink
\* appends it to its file
print_log(f, S, line) ==
    [q \in DOMAIN f |->
        IF FileSink(q) \in S THEN [text |-> Append(f[q].text, line)] ELSE f[q]]

SinkFiles(f, S) == {q \in DOMAIN f : FileSink(q) \in S}

NoteWrites(w, paths, rank) ==
    [q \in DOMAIN w \cup paths |->
        IF q \in paths THEN (IF q \in DOMAIN w THEN w[q] ELSE {}) \cup {rank}
        ELSE w[q]]

\* ---- logging (standard library) as on_fit_start uses it ----------------------
\* variant: the handlers installed before are left in place
KeepHandlers(S) == S

\* for handler in logging.root.handlers[:]: logging.root.removeHandler(handler)
RemoveHandlers(S) == {}

\* logging.basicConfig(filename=...): does nothing when the root logger has
\* handlers, else installs one FileHandler
BasicConfigSinks(S, path) == IF S = {} THEN {FileSink(path)} ELSE S

\* the FileHandler opens its file in mode 'a': created when absent, kept otherwise
OpenAppend(f, path) == IF Exists(f, path) THEN f ELSE PutFile(f, path, [text |-> <<>>])

\* variant: an existing file is not rewritten
WriteJsonKeep(f, path, config) ==
    IF Exists(f, path) THEN f ELSE PutFile(f, path, [json |-> config])

\* open(path, 'w') + json.dump(config)
WriteJson(f, path, config) == PutFile(f, path, [json |-> config])

\* ---- the record of the last hook event ---------------------------------------
Ev(rank, hook) ==
    [rank |-> rank, hook |-> hook, out |-> "ok", lines |-> <<>>,
     had |-> FALSE, snap |-> None, val |-> None, opts |-> <<>>, epoch |-> 0,
     cb |-> None, pre |-> EmptyFn, readable |-> TRUE]

\* ---- SetupCallback ------------------------------------------------------------
\* __init__
SetupInit(id, save_dir, ckpt_dir, config, method_info) ==
    [prefix |-> id[1], setup_time |-> id[2], save_dir |-> save_dir,
     ckpt_dir |-> ckpt_dir, config |-> config, method_info |-> method_info]

\* variant: no rank gate
AnyRank(global_rank) == TRUE

\* trainer.global_rank == 0
IsCoordinator(global_rank) == global_rank = 0

\* the body of on_fit_start under the rank gate: the state it leaves behind
FitStartBody(p) ==
    LET self == setup[p]
        sd == check_dir(dirs, self.save_dir)
        cd == check_dir(sd.dirs, self.ckpt_dir)
        logp == LogPath(sd.ret, self.prefix, self.setup_time)
        S1 == BasicConfigSinks(RemoveHandlers(sinks[p]), logp)
        f1 == IF FileSink(logp) \in S1 THEN OpenAppend(files, logp) ELSE files
        f2 == print_log(f1, S1, EnvLine)
        sv_param == join(sd.ret, "model_param.json")
        f3 == WriteJson(f2, sv_param, self.config)
        f4 == print_log(f3, S1, ArgsLine(self.config))
        f5 == IF self.method_info # None
              THEN print_log(f4, S1, ModelLine(self.method_info[1]))
              ELSE f4
        emitted == <<EnvLine, ArgsLine(self.config)>> \o
                   (IF self.method_info # None
                    THEN <<ModelLine(self.method_info[1])>> ELSE <<>>)
    IN  [dirs |-> cd.dirs,
         files |-> f5,
         writers |-> NoteWrites(writers, SinkFiles(f1, S1) \cup {sv_param}, p),
         sinks |-> S1,
         self |-> [self EXCEPT !.save_dir = sd.ret, !.ckpt_dir = cd.ret],
         lines |-> emitted]

on_fit_start(p) ==
    LET r == FitStartBody(p)
        ev == Ev(p, "fit_start")
    IN  /\ IF IsCoordinator(p)
           THEN /\ LogsBounded(r.files)
                /\ dirs' = r.dirs
                /\ files' = r.files
                /\ writers' = r.writers
                /\ sinks' = [sinks EXCEPT ![p] = r.sinks]
                /\ setup' = [setup EXCEPT ![p] = r.self]
                /\ last' = [ev EXCEPT !.lines = r.lines]
           ELSE /\ UNCHANGED <<dirs, files, writers, sinks, setup>>
                /\ last' = ev
        /\ UNCHANGED <<reporter, epoch, trained, ckpt_cb>>

\* the launch script builds the SetupCallback of every process from the same
\* arguments
Launch(id, config, method_info) ==
    /\ setup' = [p \in Ranks |->
                    SetupInit(id, RelSaveDir, RelCkptDir, config, method_info)]
    /\ last' = Ev(0, "launch")
    /\ UNCHANGED <<dirs, files, writers, sinks, reporter, epoch, trained, ckpt_cb>>

\* ---- EpochEndCallback ---------------------------------------------------------
hasattr(obj, name) == name \in DOMAIN obj

\* on_train_epoch_end; metric is trainer.callback_metrics.get('train/total_loss')
on_train_epoch_end(p, metric) ==
    /\ reporter' = [reporter EXCEPT ![p] = [avg_train_loss |-> metric]]
    /\ trained' = [trained EXCEPT ![p] = TRUE]
    /\ last' = [Ev(p, "train_epoch_end") EXCEPT
                    !.had = trained[p], !.epoch = epoch[p], !.snap = Some(metric)]
    /\ UNCHANGED <<dirs, files, writers, sinks, setup, epoch, ckpt_cb>>

\* the outcome of EpochEndCallback.on_validation_epoch_end: the error raised
\* (formatting None with ':.7f' is a TypeError) and the lines handed to print_log
ReportOutcome(self, current_epoch, optimizers, avg_val_loss) ==
    LET lr == optimizers[1][1].lr
    IN  IF hasattr(self, "avg_train_loss")
        THEN IF self.avg_train_loss = None \/ avg_val_loss = None
             THEN [out |-> "TypeError", lines |-> <<>>]
             ELSE [out |-> "ok",
                   lines |-> <<EpochLine(current_epoch, lr,
                                         self.avg_train_loss[1], avg_val_loss[1])>>]
        ELSE [out |-> "ok", lines |-> <<>>]

\* EpochEndCallback.on_validation_epoch_end; avg_val_loss is
\* trainer.callback_metrics.get('val_loss')
report_validation_epoch_end(p, optimizers, avg_val_loss) ==
    LET r == ReportOutcome(reporter[p], epoch[p], optimizers, avg_val_loss)
        f == IF r.lines = <<>> THEN files ELSE print_log(files, sinks[p], r.lines[1])
    IN  /\ LogsBounded(f)
        /\ files' = f
        /\ writers' = IF r.lines = <<>> THEN writers
                      ELSE NoteWrites(writers, SinkFiles(files, sinks[p]), p)
        /\ last' = [Ev(p, "validation_epoch_end") EXCEPT
                        !.out = r.out, !.lines = r.lines, !.had = trained[p],
                        !.epoch = epoch[p], !.opts = optimizers, !.val = avg_val_loss,
                        !.snap = IF hasattr(reporter[p], "avg_train_loss")
                                 THEN Some(reporter[p].avg_train_loss) ELSE None]
        /\ UNCHANGED <<dirs, sinks, setup, reporter, epoch, trained, ckpt_cb>>

\* the trainer moves on to the next epoch
HostNextEpoch(p) ==
    /\ epoch[p] < MaxEpoch
    /\ epoch' = [epoch EXCEPT ![p] = @ + 1]
    /\ trained' = [trained EXCEPT ![p] = FALSE]
    /\ last' = Ev(p, "next_epoch")
    /\ UNCHANGED <<dirs, files, writers, sinks, setup, reporter, ckpt_cb>>

\* ---- BestCheckpointCallback ---------------------------------------------------
\* what the parent ModelCheckpoint may do in one step: nothing, or track `path`
\* as the best checkpoint, having written it (on rank 0) or not
HostChoices ==
    {[save |-> FALSE, path |-> EmptyPath, data |-> 1, wrote |-> FALSE]} \cup
    [save : {TRUE}, path : CkptPaths, data : {1}, wrote : {FALSE}] \cup
    [save : {TRUE}, path : CkptPaths, data : CkptData, wrote : {TRUE}]

\* only the process of rank 0 writes checkpoint files and copies them, so the
\* other ranks draw the tracked path alone
HostChoicesOf(p) ==
    IF p = 0 THEN HostChoices ELSE {h \in HostChoices : h.data = 1 /\ ~h.wrote}

ReadableOf(p) == IF p = 0 THEN BOOLEAN ELSE {TRUE}

\* a trainer without a checkpoint callback saves nothing; checkpoint files are
\* written by the process of rank 0
HostWrites(cb, p, h) == h.save /\ h.wrote /\ cb # None /\ p = 0

HostFiles(f, cb, p, h) ==
    IF HostWrites(cb, p, h) THEN PutFile(f, h.path, [data |-> h.data]) ELSE f

HostWriters(w, cb, p, h) ==
    IF HostWrites(cb, p, h) THEN NoteWrites(w, {h.path}, p) ELSE w

HostCb(cb, h) == IF h.save /\ cb # None THEN Some(h.path) ELSE cb

\* variant: an existing destination is not overwritten
copyKeepExisting(f, src, dst, readable) ==
    IF ~Exists(f, src) THEN [out |-> "FileNotFoundError", files |-> f, written |-> {}]
    ELSE IF src = dst THEN [out |-> "SameFileError", files |-> f, written |-> {}]
    ELSE IF ~readable THEN [out |-> "PermissionError", files |-> f, written |-> {}]
    ELSE IF Exists(f, dst) THEN [out |-> "ok", files |-> f, written |-> {}]
    ELSE [out |-> "ok", files |-> PutFile(f, dst, f[src]), written |-> {dst}]

\* variant: the destination is opened (and truncated) before the source
copyDstFirst(f, src, dst, readable) ==
    IF ~Exists(f, src) \/ ~readable
    THEN [out |-> IF Exists(f, src) THEN "PermissionError" ELSE "FileNotFoundError",
          files |-> PutFile(f, dst, [data |-> 0]), written |-> {dst}]
    ELSE IF src = dst THEN [out |-> "SameFileError", files |-> f, written |-> {}]
    ELSE [out |-> "ok", files |-> PutFile(f, dst, f[src]), written |-> {dst}]

\* shutil.copy(src, dst): the error raised, the files afterwards and the paths
\* written.  The source is opened before the destination.
copy(f, src, dst, readable) ==
    IF ~Exists(f, src) THEN [out |-> "FileNotFoundError", files |-> f, written |-> {}]
    ELSE IF src = dst THEN [out |-> "SameFileError", files |-> f, written |-> {}]
    ELSE IF ~readable THEN [out |-> "PermissionError", files |-> f, written |-> {}]
    ELSE [out |-> "ok", files |-> PutFile(f, dst, f[src]), written |-> {dst}]

\* variant: the best path is not tested for emptiness
MirrorBestAnyPath(f, checkpoint_callback, global_rank, readable) ==
    IF checkpoint_callback # None /\ global_rank = 0
    THEN LET best_path == checkpoint_callback[1]
         IN  copy(f, best_path, join(dirname(best_path), "best.ckpt"), readable)
    ELSE [out |-> "ok", files |-> f, written |-> {}]

\* variant: no rank gate
MirrorBestAnyRank(f, checkpoint_callback, global_rank, readable) ==
    IF checkpoint_callback # None /\ checkpoint_callback[1] # EmptyPath
    THEN LET best_path == checkpoint_callback[1]
         IN  copy(f, best_path, join(dirname(best_path), "best.ckpt"), readable)
    ELSE [out |-> "ok", files |-> f, written |-> {}]

\* the part of on_validation_epoch_end / on_test_end after the super() call
MirrorBest(f, checkpoint_callback, global_rank, readable) ==
    IF checkpoint_callback # None /\ checkpoint_callback[1] # EmptyPath
       /\ global_rank = 0
    THEN LET best_path == checkpoint_callback[1]
         IN  copy(f, best_path, join(dirname(best_path), "best.ckpt"), readable)
    ELSE [out |-> "ok", files |-> f, written |-> {}]

\* one hook event: the super() call (the parent's step h), then the copy
MirrorEvent(p, hook, h, readable) ==
    LET fh == HostFiles(files, ckpt_cb[p], p, h)
        cb == HostCb(ckpt_cb[p], h)
        r == MirrorBest(fh, cb, p, readable)
        w == HostWriters(writers, ckpt_cb[p], p, h)
    IN  /\ files' = r.files
        /\ writers' = NoteWrites(w, r.written, p)
        /\ ckpt_cb' = [ckpt_cb EXCEPT ![p] = cb]
        /\ last' = [Ev(p, hook) EXCEPT
                        !.out = r.out, !.cb = cb, !.pre = fh, !.readable = readable]
        /\ UNCHANGED <<dirs, sinks, setup, reporter, epoch, trained>>

\* BestCheckpointCallback.on_validation_epoch_end
mirror_validation_epoch_end(p, h, readable) ==
    MirrorEvent(p, "mirror_validation_epoch_end", h, readable)

\* BestCheckpointCallback.on_test_end
mirror_test_end(p, h, readable) == MirrorEvent(p, "mirror_test_end", h, readable)

\* ModelCheckpoint acting at another lifecycle point
HostCheckpoint(p, h) ==
    /\ h.save
    /\ files' = HostFiles(files, ckpt_cb[p], p, h)
    /\ writers' = HostWriters(writers, ckpt_cb[p], p, h)
    /\ ckpt_cb' = [ckpt_cb EXCEPT ![p] = HostCb(@, h)]
    /\ last' = Ev(p, "host_checkpoint")
    /\ UNCHANGED <<dirs, sinks, setup, reporter, epoch, trained>>

\* ---- the system ------------------------------------------------------------------
\* every process runs the same launch script: the same SetupCallback arguments,
\* the same handlers installed before fit-start, the same callback list
OldBest == join(Cwd \o RelCkptDir, "best.ckpt")

\* the checkpoint directory may hold the best.ckpt of an earlier run
Init ==
    /\ \/ dirs = {} /\ files = EmptyFn
       \/ dirs = Ancestors(dirname(OldBest)) /\ files = PutFile(EmptyFn, OldBest, [data |-> 1])
    /\ writers = EmptyFn
    /\ \E S \in SUBSET PreSinks : sinks = [p \in Ranks |-> S]
    /\ \E id \in RunIds, c \in Configs, mi \in MethodInfos :
          setup = [p \in Ranks |-> SetupInit(id, RelSaveDir, RelCkptDir, c, mi)]
    /\ reporter = [p \in Ranks |-> EmptyFn]
    /\ epoch = [p \in Ranks |-> 0]
    /\ trained = [p \in Ranks |-> FALSE]
    /\ \E cb \in {None, Some(EmptyPath)} : ckpt_cb = [p \in Ranks |-> cb]
    /\ last = Ev(0, "init")

\* RunSetup alone
NextSetup ==
    \/ \E id \in RunIds, c \in Configs, mi \in MethodInfos : Launch(id, c, mi)
    \/ \E p \in Ranks : on_fit_start(p)

SpecSetup == Init /\ [][NextSetup]_vars

\* EpochReporter under a host that has run fit-start or not
InitReporter ==
    /\ Init
    /\ setup[0].prefix = "train" /\ setup[0].config.epochs = 10
    /\ setup[0].method_info = None
    /\ ckpt_cb[0] = Some(EmptyPath)
    /\ files = EmptyFn

NextReporter ==
    \/ \E p \in Ranks : on_fit_start(p)
    \/ \E p \in Ranks, m \in TrainMetrics : on_train_epoch_end(p, m)
    \/ \E p \in Ranks, o \in OptimizerLists, v \in ValMetrics :
          report_validation_epoch_end(p, o, v)
    \/ \E p \in Ranks : HostNextEpoch(p)

SpecReporter == InitReporter /\ [][NextReporter]_vars

\* BestArtifactMirror and the host's checkpointing
InitMirror ==
    /\ Init
    /\ setup[0].prefix = "train" /\ setup[0].config.epochs = 10
    /\ setup[0].method_info = None
    /\ sinks[0] = {}

NextMirror ==
    \/ \E p \in Ranks : \E h \in HostChoicesOf(p), r \in ReadableOf(p) :
          mirror_validation_epoch_end(p, h, r)
    \/ \E p \in Ranks : \E h \in HostChoicesOf(p), r \in ReadableOf(p) :
          mirror_test_end(p, h, r)
    \/ \E p \in Ranks : \E h \in HostChoicesOf(p) : HostCheckpoint(p, h)

SpecMirror == InitMirror /\ [][NextMirror]_vars

\* the three hooks together, every process receiving every event
RunConfig == [epochs |-> 10]
RunTrainMetric == Some(51234564)
RunValMetric == Some(49876547)
RunOptimizers == << <<[lr |-> 100000], [lr |-> 50004]>> >>
RunHostChoices ==
    {h \in HostChoices : h.save => /\ h.path = join(Cwd \o RelCkptDir, "epoch=5.ckpt")
                                   /\ h.data = 1 /\ h.wrote}

InitRun ==
    /\ Init
    /\ setup[0].config = RunConfig
    /\ setup[0].prefix = "train"
    /\ setup[0].method_info = None
    /\ ckpt_cb[0] = Some(EmptyPath)
    /\ files = EmptyFn

NextRun ==
    \/ \E id \in RunIds : Launch(id, RunConfig, None)
    \/ \E p \in Ranks : on_fit_start(p)
    \/ \E p \in Ranks : on_train_epoch_end(p, RunTrainMetric)
    \/ \E p \in Ranks : report_validation_epoch_end(p, RunOptimizers, RunValMetric)
    \/ \E p \in Ranks, h \in RunHostChoices : mirror_validation_epoch_end(p, h, TRUE)
    \/ \E p \in Ranks, h \in RunHostChoices : mirror_test_end(p, h, TRUE)

Spec == InitRun /\ [][NextRun]_vars

\* ---- properties ------------------------------------------------------------------
ReporterHooks == {"train_epoch_end", "validation_epoch_end"}
MirrorHooks == {"mirror_validation_epoch_end", "mirror_test_end"}
SharedNames == {".log", "model_param.json", "best.ckpt"}
LogFiles(f) == {q \in DOMAIN f : q[Len(q)] = ".log"}
BestOf(path) == join(dirname(path), "best.ckpt")

\* C1: a validation-epoch-end that fires in an epoch in which no train-epoch-end
\* has fired before it emits no log line and raises no error, also when a
\* train-epoch-end fired in an earlier epoch.  Stated for the events whose
\* metrics are present (an absent metric is the case of C2).
C1_NoLineWithoutTrainEndInEpoch ==
    (last.hook = "validation_epoch_end" /\ ~last.had
     /\ last.snap # Some(None) /\ last.val # None)
        => (last.lines = <<>> /\ last.out = "ok")

\* C2: when 'train/total_loss' was absent at train-epoch-end (None was stored) or
\* 'val_loss' is absent at validation-epoch-end, the validation-epoch-end skips
\* the line and ends without an error.
C2_MissingMetricSkipsSilently ==
    (last.hook = "validation_epoch_end"
     /\ (last.snap = Some(None) \/ last.val = None))
        => (last.out = "ok" /\ last.lines = <<>>)

\* C6: when a training-loss snapshot exists, a validation-epoch-end emits exactly
\* one line, holding the current epoch, the learning rate of the first parameter
\* group of the first optimizer, the loss stored by the latest train-epoch-end
\* and the current 'val_loss'; a train-epoch-end emits no line.
C6_OneLineWithCurrentValues ==
    /\ (last.hook = "validation_epoch_end" /\ last.snap # None /\ last.snap[1] # None)
          => /\ last.out = "ok"
             /\ Len(last.lines) = 1
             /\ last.val # None =>
                   last.lines[1] = EpochLine(last.epoch, last.opts[1][1].lr,
                                             last.snap[1][1], last.val[1])
    /\ last.hook = "train_epoch_end" => last.lines = <<>>

\* C3: on_fit_start in a process of rank other than 0 creates no directory, writes
\* no file, leaves the logging sinks of every process and the hook's save_dir and
\* ckpt_dir as they were.
C3_NonCoordinatorFitStartInert ==
    [][(last'.hook = "fit_start" /\ last'.rank # 0)
          => /\ dirs' = dirs
             /\ files' = files
             /\ writers' = writers
             /\ sinks' = sinks
             /\ setup'[last'.rank].save_dir = setup[last'.rank].save_dir
             /\ setup'[last'.rank].ckpt_dir = setup[last'.rank].ckpt_dir]_vars

\* rank 0 has set up the run, another rank has run on_fit_start and still has the
\* relative save_dir and the sinks it started with
C3_Witness ==
    /\ last.hook = "fit_start" /\ last.rank # 0
    /\ setup[last.rank].save_dir = RelSaveDir
    /\ setup[0].save_dir # RelSaveDir
    /\ sinks[last.rank] # sinks[0]
    /\ DOMAIN files # {}

\* C7: a coordinator on_fit_start adds its lines to the log file named by its own
\* (prefix, timestamp), keeps the log file of every other (prefix, timestamp) with
\* its content, and leaves a single model_param.json holding the configuration of
\* this call only.
C7_TwoSetupsKeepLogsReplaceJson ==
    [][(last'.hook = "fit_start" /\ last'.rank = 0)
          => LET self == setup[0]
                 dir == setup'[0].save_dir
                 new == LogPath(dir, self.prefix, self.setup_time)
                 json == join(dir, "model_param.json")
             IN  /\ Exists(files', new)
                 /\ files'[new].text =
                       (IF Exists(files, new) THEN files[new].text ELSE <<>>)
                           \o last'.lines
                 /\ \A id \in RunIds \ {<<self.prefix, self.setup_time>>} :
                       LET old == LogPath(dir, id[1], id[2])
                       IN  /\ old # new
                           /\ Exists(files, old)
                                 => Exists(files', old) /\ files'[old] = files[old]
                 /\ files'[json] = [json |-> self.config]
                 /\ {q \in DOMAIN files' : q[Len(q)] = "model_param.json"} = {json}
       ]_vars

\* after the second call: two log files, the first one still holding the
\* configuration of the first call, model_param.json holding another one
C7_Witness ==
    /\ last.hook = "fit_start" /\ last.rank = 0
    /\ Cardinality(LogFiles(files)) = 2
    /\ \E q \in LogFiles(files) :
          /\ FileSink(q) \notin sinks[0]
          /\ Len(files[q].text) >= 2
          /\ files[q].text[2].args #
                files[join(setup[0].save_dir, "model_param.json")].json

\* C10: a coordinator on_fit_start leaves exactly one sink, the file sink of
\* {results-directory}/{prefix}_{timestamp}.log of that call, whatever sinks were
\* installed before; no event of EpochReporter or BestArtifactMirror changes the
\* sinks of any process.
C10_SinksSetOnlyByCoordinatorSetup ==
    [][/\ (last'.hook = "fit_start" /\ last'.rank = 0)
             => sinks'[0] = {FileSink(LogPath(abspath(setup[0].save_dir),
                                              setup[0].prefix, setup[0].setup_time))}
       /\ (last'.hook \in ReporterHooks \cup MirrorHooks) => sinks' = sinks]_vars

\* handlers were installed before fit-start, two setups have run, and the
\* coordinator has just logged an epoch line to the log of the latest one
C10_Witness ==
    /\ last.hook = "validation_epoch_end" /\ last.rank = 0 /\ last.lines # <<>>
    /\ sinks[MaxRank] = PreSinks
    /\ Cardinality(LogFiles(files)) = 2
    /\ sinks[0] = {FileSink(LogPath(setup[0].save_dir, setup[0].prefix,
                                    setup[0].setup_time))}
    /\ \E q \in LogFiles(files) :
          FileSink(q) \in sinks[0] /\ files[q].text[Len(files[q].text)].kind = "epoch"

\* C8: no process of rank other than 0 creates or writes a log file,
\* model_param.json or best.ckpt; each of them has at most one writing process.
C8_OnlyCoordinatorWritesSharedFiles ==
    \A q \in DOMAIN writers :
        q[Len(q)] \in SharedNames
            => (writers[q] \subseteq {0} /\ Cardinality(writers[q]) <= 1)

\* the three kinds of file exist, and a rank other than 0 that holds a loss
\* snapshot has just run the mirror hook with a non-empty best path
C8_Witness ==
    /\ last.hook \in MirrorHooks /\ last.rank # 0
    /\ last.cb # None /\ last.cb[1] # EmptyPath
    /\ Exists(files, last.cb[1])
    /\ hasattr(reporter[last.rank], "avg_train_loss")
    /\ SharedNames \subseteq {q[Len(q)] : q \in DOMAIN writers}

\* C4: on the coordinator, after a mirror event at which the host reports a
\* non-empty best path P whose file is there to be read, best.ckpt in the
\* directory of P exists and holds the content of the file at P as the host left
\* it in that event; older content of best.ckpt is replaced.
C4_BestCkptMirrorsBestPath ==
    (/\ last.hook \in MirrorHooks /\ last.rank = 0
     /\ last.cb # None /\ last.cb[1] # EmptyPath
     /\ Exists(last.pre, last.cb[1]) /\ last.readable)
        => /\ Exists(files, BestOf(last.cb[1]))
           /\ files[BestOf(last.cb[1])] = last.pre[last.cb[1]]
           /\ files[last.cb[1]] = last.pre[last.cb[1]]

\* a copy has replaced the older content of an existing best.ckpt
C4_Witness ==
    /\ last.hook \in MirrorHooks /\ last.rank = 0 /\ last.out = "ok"
    /\ last.cb # None /\ last.cb[1] # EmptyPath
    /\ Exists(last.pre, BestOf(last.cb[1]))
    /\ last.pre[BestOf(last.cb[1])] # files[BestOf(last.cb[1])]

\* C5: when the host reports an empty best path or has no checkpoint callback, a
\* mirror event leaves every file as it was and ends without an error.
C5_EmptyBestPathNoCopy ==
    [][(last'.hook \in MirrorHooks /\ (last'.cb = None \/ last'.cb[1] = EmptyPath))
          => (files' = files /\ writers' = writers /\ last'.out = "ok")]_vars

\* the coordinator has run the hook with nothing to copy while a best.ckpt of an
\* earlier run lies in the checkpoint directory
C5_Witness ==
    /\ last.hook \in MirrorHooks /\ last.rank = 0 /\ last.out = "ok"
    /\ (last.cb = None \/ last.cb[1] = EmptyPath)
    /\ Exists(files, OldBest)

\* C9: on the coordinator, a copy whose source is missing or unreadable ends the
\* hook in an error, and a failed copy writes nothing (an existing best.ckpt keeps
\* its content, no other file appears); in every case the file at the best path
\* stays in place with its content and the only file the hook may write is
\* best.ckpt next to it.
C9_CopyFailureLeavesFilesAlone ==
    (last.hook \in MirrorHooks /\ last.rank = 0
     /\ last.cb # None /\ last.cb[1] # EmptyPath)
        => LET P == last.cb[1]
           IN  /\ (~Exists(last.pre, P) \/ ~last.readable) => last.out # "ok"
               /\ last.out # "ok" => files = last.pre
               /\ Exists(last.pre, P) => Exists(files, P) /\ files[P] = last.pre[P]
               /\ \A q \in DOMAIN last.pre :
                     q # BestOf(P) => Exists(files, q) /\ files[q] = last.pre[q]
               /\ DOMAIN files \subseteq DOMAIN last.pre \cup {BestOf(P)}

\* the copy failed on a missing source while best.ckpt was already there
C9_Witness ==
    /\ last.hook \in MirrorHooks /\ last.rank = 0
    /\ last.out = "FileNotFoundError"
    /\ last.cb # None /\ last.cb[1] # EmptyPath
    /\ Exists(files, BestOf(last.cb[1]))

====
